---- MODULE Spec2Model ----
(***************************************************************************)
(* VirtualenvKeeper (src/venv.py): the reuse-or-rebuild decision of        *)
(* ensure(), the two change triggers, and save / restore / purge of the    *)
(* saved virtualenv.                                                       *)
(*                                                                         *)
(* A directory is a record [exists, files]; files maps an entry name to    *)
(* the lines of that file.  A path is a sequence of components, so that    *)
(* os.path.join, os.path.basename and glob are computed, not assumed.      *)
(* A call that can raise returns [ok, err, val].                           *)
(*                                                                         *)
(* Taken from the interfaces the code relies on: shutil.rmtree removes the *)
(* tree; a provisioning run that returns 0 has built the virtualenv; the   *)
(* virtualenv tree has no top-level entry matching a requirement pattern;  *)
(* a requirement file is the list of lines readlines() returns.            *)
(***************************************************************************)
EXTENDS Integers, Sequences, FiniteSets, TLC

VARIABLES
    rfiles,     \* requirement files of the project (cwd): name -> lines
    index,      \* package index: the outdated lines pip would print now
    tools,      \* behaviour of the external tools: [probe, query, make]
    snapshot,   \* directory at full_saved_venv_path
    live,       \* directory at full_new_virtualenv_path
    pc,         \* position inside ensure(), "idle" between runs
    path,       \* branch taken by the current / last run
    result,     \* how the current / last run ended
    rc,         \* return code of _create_new_venv in this run
    invoked,    \* the provisioning tool was invoked in this run
    had,        \* a saved venv existed when this run started
    prev        \* how the previous run ended, "changed" once anything
                \* outside ensure() changed after it

vars == <<rfiles, index, tools, snapshot, live, pc, path, result, rc, invoked, had, prev>>

-----------------------------------------------------------------------------
(* Bounds *)

MaxLines == 2
NumPkgs == 1

-----------------------------------------------------------------------------
(* Universe of file names and contents *)

ReqNames == {"requires.txt", "requirements.txt"}

ReqLines == {"a\n", "b\n"}

\* requirement file contents: sequences of distinct lines, 1..MaxLines long
Contents ==
    UNION { { s \in [1..n -> ReqLines] : \A i, j \in 1..n : i # j => s[i] # s[j] }
            : n \in 1..MaxLines }

PkgLines == << "alpha (Current: 1.0 Latest: 2.0)",
               "beta (Current: 1.0 Latest: 1.1)",
               "gamma (Current: 0.9 Latest: 1.0)" >>

PkgRange == 1..(IF NumPkgs < Len(PkgLines) THEN NumPkgs ELSE Len(PkgLines))

Pkgs == { PkgLines[i] : i \in PkgRange }

NoiseLine == "Could not find any downloads that satisfy the requirement"

EnvEntries == {"bin/pip", "lib/site.py", "lib/site.pyc"}

EnvFile == << "env" >>

OutdatedName == "outdated.txt"

SavedPath == "save/virtualenv_project"

EmptyFiles == [n \in {} |-> << >>]

Absent == [exists |-> FALSE, files |-> EmptyFiles]

MkDir(f) == [exists |-> TRUE, files |-> f]

Restrict(f, S) == [n \in (DOMAIN f) \cap S |-> f[n]]

Range(s) == { s[i] : i \in DOMAIN s }

Ret(v) == [ok |-> TRUE, err |-> "", val |-> v]

Raise(e) == [ok |-> FALSE, err |-> e, val |-> FALSE]

-----------------------------------------------------------------------------
(* Paths, glob and the requirement-file collector *)

\* the leading part of a name that a pattern "<stem>*" is matched against
Stem(n) ==
    CASE n = "requires.txt" -> "requires"
      [] n = "requirements.txt" -> "requirements"
      [] n = "outdated.txt" -> "outdated"
      [] n = "bin/pip" -> "bin"
      [] OTHER -> "lib"

\* the extension that a pattern "*<ext>" is matched against
Ext(n) ==
    CASE n = "bin/pip" -> ""
      [] n = "lib/site.py" -> ".py"
      [] n = "lib/site.pyc" -> ".pyc"
      [] OTHER -> ".txt"

FnMatch(n, pattern) == pattern = Stem(n) \o "*" \/ pattern = "*" \o Ext(n)

rpatterns_list == << "requires*", "requirements*" >>

Join(from_path, name) == IF from_path = "" THEN << name >> ELSE << from_path, name >>

Basename(p) == << p[Len(p)] >>

RECURSIVE SetToSeq(_)
SetToSeq(S) ==
    IF S = {} THEN << >>
    ELSE LET x == CHOOSE y \in S : TRUE IN << x >> \o SetToSeq(S \ {x})

Glob(files, from_path, pattern) ==
    SetToSeq({ Join(from_path, n) : n \in { m \in DOMAIN files : FnMatch(m, pattern) } })

RECURSIVE CollectFrom(_, _, _)
CollectFrom(files, from_path, i) ==
    IF i > Len(rpatterns_list) THEN << >>
    ELSE Glob(files, from_path, rpatterns_list[i]) \o CollectFrom(files, from_path, i + 1)

\* _collect_rfiles: the list of matching paths, pattern by pattern
CollectRfiles(files, from_path) == CollectFrom(files, from_path, 1)

\* open(path).readlines(): a one-component path is relative to the project
\* directory, a path under SavedPath is a file of the saved venv
ReadLines(p, cwd, saved) == IF Len(p) = 1 THEN cwd[p[1]] ELSE saved[p[2]]

-----------------------------------------------------------------------------
(* difflib.unified_diff, reduced to the changed block between the common   *)
(* head and the common tail; empty exactly when nothing is reported        *)

RECURSIVE CommonHead(_, _)
CommonHead(a, b) ==
    IF a = << >> \/ b = << >> \/ Head(a) # Head(b) THEN 0
    ELSE 1 + CommonHead(Tail(a), Tail(b))

Reverse(s) == [i \in 1..Len(s) |-> s[Len(s) + 1 - i]]

\* a diff that compares the two files as sets of lines
UnifiedDiffUnordered(a, b) ==
    SetToSeq({ "-" \o l : l \in Range(a) \ Range(b) })
        \o SetToSeq({ "+" \o l : l \in Range(b) \ Range(a) })

UnifiedDiff(a, b) ==
    LET h  == CommonHead(a, b)
        ra == SubSeq(a, h + 1, Len(a))
        rb == SubSeq(b, h + 1, Len(b))
        t  == CommonHead(Reverse(ra), Reverse(rb))
        da == SubSeq(ra, 1, Len(ra) - t)
        db == SubSeq(rb, 1, Len(rb) - t)
    IN  [i \in 1..Len(da) |-> "-" \o da[i]] \o [i \in 1..Len(db) |-> "+" \o db[i]]

\* _requires_has_diff keyed by the full paths of the saved files
RequiresHasDiffFullPath(cwd, saved) ==
    LET old_files == CollectRfiles(saved, SavedPath)
        new_files == CollectRfiles(cwd, "")
    IN  IF Range(old_files) # Range(new_files) THEN TRUE
        ELSE \E new \in Range(new_files) :
                UnifiedDiff(ReadLines(new, cwd, saved), ReadLines(new, cwd, saved)) # << >>

\* _requires_has_diff that only looks for saved files missing from the project
RequiresHasDiffSubset(cwd, saved) ==
    LET old_files == CollectRfiles(saved, SavedPath)
        new_files == CollectRfiles(cwd, "")
        keys == { Basename(f) : f \in Range(old_files) }
        diff_files_map == [k \in keys |-> CHOOSE f \in Range(old_files) : Basename(f) = k]
    IN  IF ~ (keys \subseteq Range(new_files)) THEN TRUE
        ELSE \E new \in keys :
                UnifiedDiff(ReadLines(new, cwd, saved),
                            ReadLines(diff_files_map[new], cwd, saved)) # << >>

\* _requires_has_diff
RequiresHasDiff(cwd, saved) ==
    LET old_files == CollectRfiles(saved, SavedPath)
        new_files == CollectRfiles(cwd, "")
        keys == { Basename(f) : f \in Range(old_files) }
        diff_files_map == [k \in keys |-> CHOOSE f \in Range(old_files) : Basename(f) = k]
    IN  IF keys # Range(new_files) THEN TRUE
        ELSE \E new \in keys :
                UnifiedDiff(ReadLines(new, cwd, saved),
                            ReadLines(diff_files_map[new], cwd, saved)) # << >>

-----------------------------------------------------------------------------
(* The external tools as ensure() sees them *)

NewPip == "pip 1.5.4 from venv/lib (python 2.7)"
OldPip == "pip 1.4 from venv/lib (python 2.7)"
BadPip == "pip 1..5 from venv/lib (python 2.7)"
NoPip == ""

ProbeOutputs == {NewPip, OldPip, BadPip, NoPip}

QueryModes == {"ok", "fails"}

MakeModes == {"ok", "fails", "nostart"}

GoodTools == [probe |-> NewPip, query |-> "ok", make |-> "ok"]

\* the tool behaviours considered: at most one tool departs from GoodTools
ToolConfigs ==
    { t \in [probe : ProbeOutputs, query : QueryModes, make : MakeModes] :
        Cardinality({ f \in {"probe", "query", "make"} : t[f] # GoodTools[f] }) <= 1 }

\* re.search(r'pip ([\d\.]+) from', data): whether it matches
VersionMatch(data) == data \in {NewPip, OldPip, BadPip}

\* m.groups()[0].split('.')
VersionGroup(data) ==
    CASE data = NewPip -> << "1", "5", "4" >>
      [] data = OldPip -> << "1", "4" >>
      [] OTHER -> << "1", "", "5" >>

ToInt(d) == CASE d = "1" -> 1 [] d = "4" -> 4 [] d = "5" -> 5 [] OTHER -> 0

\* tuple comparison a >= b as Python orders tuples
RECURSIVE TupleGE(_, _)
TupleGE(a, b) ==
    IF b = << >> THEN TRUE
    ELSE IF a = << >> THEN FALSE
    ELSE IF Head(a) # Head(b) THEN Head(a) > Head(b)
    ELSE TupleGE(Tail(a), Tail(b))

\* get_pip_version(venv_path)
GetPipVersion(venv) ==
    IF ~ venv.exists \/ "bin/pip" \notin DOMAIN venv.files THEN Raise("OSError")
    ELSE IF ~ VersionMatch(tools.probe) THEN Raise("AttributeError")
    ELSE LET g == VersionGroup(tools.probe)
         IN  IF \E i \in DOMAIN g : g[i] = "" THEN Raise("ValueError")
             ELSE Ret([i \in DOMAIN g |-> ToInt(g[i])])

\* stdout of "pip list -o -l ...", split into lines: when the tool works, a
\* notice and one line per outdated package, last package first; when it
\* fails, only the notice
PipListOutput(args) ==
    IF tools.query = "ok"
    THEN << NoiseLine >> \o Reverse(SetToSeq(index))
    ELSE << NoiseLine >>

\* re.search(rx, line) with rx = r'^([^\s]+ \(Current:.+? Latest:.+?)\)$'
RxMatch(line) == \E i \in DOMAIN PkgLines : line = PkgLines[i]

Rank(line) == CHOOSE i \in DOMAIN PkgLines : PkgLines[i] = line

RECURSIVE Sorted(_)
Sorted(S) ==
    IF S = {} THEN << >>
    ELSE LET x == CHOOSE y \in S : \A z \in S : Rank(y) <= Rank(z)
         IN  << x >> \o Sorted(S \ {x})

\* _get_outdated_pkgs(venv_path)
GetOutdatedPkgs(venv) ==
    LET v == GetPipVersion(venv)
    IN  IF ~ v.ok THEN v
        ELSE LET args == << "list", "-o", "-l", "-f", "--no-index" >>
                         \o (IF TupleGE(v.val, << 1, 5, 0 >>)
                             THEN << "--process-dependency-links" >> ELSE << >>)
                 data == PipListOutput(args)
                 hits == SelectSeq(data, RxMatch)
             IN  Ret(Sorted(Range(hits)))

\* "\n".join(data), as the lines of the file written
JoinLines(data) == [i \in DOMAIN data |-> IF i < Len(data) THEN data[i] \o "\n" ELSE data[i]]

\* line.strip()
Strip(line) ==
    IF \E i \in DOMAIN PkgLines : line = PkgLines[i] \o "\n"
    THEN PkgLines[CHOOSE i \in DOMAIN PkgLines : line = PkgLines[i] \o "\n"]
    ELSE line

\* _packages_updated comparing the two reports as lists
PackagesUpdatedOrdered(saved) ==
    LET now_outdated == GetOutdatedPkgs(saved)
    IN  IF ~ now_outdated.ok THEN now_outdated
        ELSE IF OutdatedName \notin DOMAIN saved.files THEN Raise("IOError")
        ELSE LET lines == saved.files[OutdatedName]
                 prev_outdated == [i \in DOMAIN lines |-> Strip(lines[i])]
             IN  Ret(prev_outdated # now_outdated.val)

\* _packages_updated
PackagesUpdated(saved) ==
    LET now_outdated == GetOutdatedPkgs(saved)
    IN  IF ~ now_outdated.ok THEN now_outdated
        ELSE IF OutdatedName \notin DOMAIN saved.files THEN Raise("IOError")
        ELSE LET lines == saved.files[OutdatedName]
                 prev_outdated == { Strip(lines[i]) : i \in DOMAIN lines }
                 now == Range(now_outdated.val)
                 diff == (prev_outdated \ now) \cup (now \ prev_outdated)
             IN  Ret(diff # {})

\* _venv_not_changed: "or" evaluates its right operand only when the left is false
VenvNotChanged(cwd, saved) ==
    IF RequiresHasDiff(cwd, saved.files) THEN Ret(FALSE)
    ELSE LET u == PackagesUpdated(saved)
         IN  IF ~ u.ok THEN u ELSE Ret(~ u.val)

\* _saved_venv_exists
SavedVenvExists == snapshot.exists

-----------------------------------------------------------------------------
(* Filesystem primitives *)

\* copytree without the ignore argument
CopiedAll(src) == DOMAIN src.files

\* names shutil.copytree(src, dst, ignore=ignore_patterns('*.pyc')) copies
Copied(src) == { n \in DOMAIN src.files : ~ FnMatch(n, "*.pyc") }

\* the trees a failing copytree can leave at dst: it creates dst, copies what
\* it can, and raises at the end naming the entries it could not copy
PartialTrees(src) ==
    { MkDir(Restrict(src.files, Copied(src) \ {n})) : n \in Copied(src) }

\* what a provisioning run that reports failure can leave at the target
PartialBuilds ==
    {Absent} \cup { MkDir([n \in S |-> EnvFile]) : S \in SUBSET EnvEntries }

BuiltEnv == MkDir([n \in EnvEntries |-> EnvFile])

-----------------------------------------------------------------------------
(* State machine *)

TypeOK ==
    /\ DOMAIN rfiles \subseteq ReqNames
    /\ \A n \in DOMAIN rfiles : rfiles[n] \in Contents
    /\ index \subseteq Pkgs
    /\ tools.probe \in ProbeOutputs /\ tools.query \in QueryModes /\ tools.make \in MakeModes
    /\ snapshot.exists \in BOOLEAN /\ live.exists \in BOOLEAN
    /\ pc \in {"idle", "check", "copy", "remove_actual", "create", "remove_saved",
               "save_venv", "save_rfiles", "save_outdated", "remove_failed"}
    /\ path \in {"none", "REUSE", "REBUILD"}
    /\ result \in {"none", "running", "ok", "error"}
    /\ rc \in {"none", "zero", "nonzero"}
    /\ invoked \in BOOLEAN /\ had \in BOOLEAN
    /\ prev \in {"changed", "ok", "error"}

Init ==
    /\ rfiles \in UNION { [S -> Contents] : S \in SUBSET ReqNames }
    /\ index = {}
    /\ tools = GoodTools
    /\ snapshot = Absent
    /\ live = Absent
    /\ pc = "idle"
    /\ path = "none"
    /\ result = "none"
    /\ rc = "none"
    /\ invoked = FALSE
    /\ had = FALSE
    /\ prev = "changed"

\* the run returns or raises: control goes back to the caller
Finish(res) ==
    /\ pc' = "idle"
    /\ result' = res
    /\ prev' = res

(* ---- the world between two runs ---- *)

\* what is remembered of the last run is kept until something outside changes
Forget ==
    /\ path' = "none"
    /\ result' = "none"
    /\ rc' = "none"
    /\ invoked' = FALSE
    /\ had' = FALSE
    /\ prev' = "changed"

WriteRfile ==
    /\ pc = "idle"
    /\ \E n \in ReqNames, c \in Contents :
          /\ n \in DOMAIN rfiles => rfiles[n] # c
          /\ rfiles' = (n :> c) @@ rfiles
    /\ Forget
    /\ UNCHANGED <<index, tools, snapshot, live, pc>>

DeleteRfile ==
    /\ pc = "idle"
    /\ \E n \in DOMAIN rfiles : rfiles' = Restrict(rfiles, DOMAIN rfiles \ {n})
    /\ Forget
    /\ UNCHANGED <<index, tools, snapshot, live, pc>>

IndexChange ==
    /\ pc = "idle"
    /\ \E p \in Pkgs : index' = (IF p \in index THEN index \ {p} ELSE index \cup {p})
    /\ Forget
    /\ UNCHANGED <<rfiles, tools, snapshot, live, pc>>

ToolsChange ==
    /\ pc = "idle"
    /\ \E t \in ToolConfigs :
          /\ t # tools
          /\ tools' = t
    /\ Forget
    /\ UNCHANGED <<rfiles, index, snapshot, live, pc>>

(* ---- ensure() ---- *)

EnsureStart ==
    /\ pc = "idle"
    /\ pc' = "check"
    /\ path' = "none"
    /\ result' = "running"
    /\ rc' = "none"
    /\ invoked' = FALSE
    /\ had' = SavedVenvExists
    /\ UNCHANGED <<rfiles, index, tools, snapshot, live, prev>>

\* ensure() that saves again after a saved venv was found unchanged
CheckResaves ==
    /\ pc = "check"
    /\ IF ~ SavedVenvExists
       THEN /\ path' = "REBUILD" /\ pc' = "remove_actual"
            /\ UNCHANGED <<result, prev>>
       ELSE LET r == VenvNotChanged(rfiles, snapshot)
            IN  IF ~ r.ok
                THEN /\ path' = path
                     /\ Finish("error")
                ELSE IF r.val
                THEN /\ path' = "REUSE" /\ pc' = "save_rfiles"
                     /\ UNCHANGED <<result, prev>>
                ELSE /\ path' = "REBUILD" /\ pc' = "remove_actual"
                     /\ UNCHANGED <<result, prev>>
    /\ UNCHANGED <<rfiles, index, tools, snapshot, live, rc, invoked, had>>

\* line 71: if self._saved_venv_exists() and self._venv_not_changed()
Check ==
    /\ pc = "check"
    /\ IF ~ SavedVenvExists
       THEN /\ path' = "REBUILD" /\ pc' = "remove_actual"
            /\ UNCHANGED <<result, prev>>
       ELSE LET r == VenvNotChanged(rfiles, snapshot)
            IN  IF ~ r.ok
                THEN /\ path' = path
                     /\ Finish("error")
                ELSE IF r.val
                THEN /\ path' = "REUSE" /\ pc' = "copy"
                     /\ UNCHANGED <<result, prev>>
                ELSE /\ path' = "REBUILD" /\ pc' = "remove_actual"
                     /\ UNCHANGED <<result, prev>>
    /\ UNCHANGED <<rfiles, index, tools, snapshot, live, rc, invoked, had>>

\* _copy_venv that moves the saved venv instead of copying it
CopyVenvMoves ==
    /\ pc = "copy"
    /\ live' = MkDir(Restrict(snapshot.files, Copied(snapshot)))
    /\ snapshot' = Absent
    /\ Finish("ok")
    /\ UNCHANGED <<rfiles, index, tools, path, rc, invoked, had>>

\* line 72: _copy_venv: rmtree of the actual venv, then copytree from the saved one
CopyVenv ==
    /\ pc = "copy"
    /\ \/ /\ live' = MkDir(Restrict(snapshot.files, Copied(snapshot)))
          /\ Finish("ok")
       \/ /\ live' \in {Absent} \cup PartialTrees(snapshot)
          /\ Finish("error")
    /\ UNCHANGED <<rfiles, index, tools, snapshot, path, rc, invoked, had>>

\* _remove_actual_venv that removes nothing
RemoveActualKeeps ==
    /\ pc = "remove_actual"
    /\ pc' = "create"
    /\ UNCHANGED <<rfiles, index, tools, snapshot, live, path, result, rc, invoked, had, prev>>

\* line 74: _remove_actual_venv
RemoveActual ==
    /\ pc = "remove_actual"
    /\ live' = Absent
    /\ pc' = "create"
    /\ UNCHANGED <<rfiles, index, tools, snapshot, path, result, rc, invoked, had, prev>>

\* line 75: return_code = self._create_new_venv()
CreateNewVenv ==
    /\ pc = "create"
    /\ CASE tools.make = "ok" ->
              /\ live' = BuiltEnv
              /\ rc' = "zero" /\ invoked' = TRUE /\ pc' = "remove_saved"
              /\ UNCHANGED <<result, prev>>
         [] tools.make = "fails" ->
              /\ live' \in PartialBuilds
              /\ rc' = "nonzero" /\ invoked' = TRUE /\ pc' = "remove_saved"
              /\ UNCHANGED <<result, prev>>
         [] OTHER ->
              \* subprocess.call raises OSError: the command cannot be started
              /\ UNCHANGED <<live, rc, invoked>>
              /\ Finish("error")
    /\ UNCHANGED <<rfiles, index, tools, snapshot, path, had>>

\* _remove_saved_venv that removes nothing
RemoveSavedKeeps ==
    /\ pc = "remove_saved"
    /\ pc' = (IF rc = "zero" THEN "save_venv" ELSE "remove_failed")
    /\ UNCHANGED <<rfiles, index, tools, snapshot, live, path, result, rc, invoked, had, prev>>

\* line 77: _remove_saved_venv
RemoveSaved ==
    /\ pc = "remove_saved"
    /\ snapshot' = Absent
    /\ pc' = (IF rc = "zero" THEN "save_venv" ELSE "remove_failed")
    /\ UNCHANGED <<rfiles, index, tools, live, path, result, rc, invoked, had, prev>>

\* line 183: _save_venv
SaveVenv ==
    /\ pc = "save_venv"
    /\ IF ~ live.exists \/ snapshot.exists
       THEN /\ UNCHANGED snapshot
            /\ Finish("error")
       ELSE \/ /\ snapshot' = MkDir(Restrict(live.files, Copied(live)))
               /\ pc' = "save_rfiles"
               /\ UNCHANGED <<result, prev>>
            \/ /\ snapshot' \in {Absent} \cup PartialTrees(live)
               /\ Finish("error")
    /\ UNCHANGED <<rfiles, index, tools, live, path, rc, invoked, had>>

\* the copy loop stopping one file short
WithRfilesShort(files, k) ==
    MkDir([n \in { Basename(files[i])[1] : i \in 1..(k - 1) } |->
              ReadLines(<< n >>, rfiles, snapshot.files)] @@ snapshot.files)

\* the saved venv after shutil.copy(f, dest) for the first k files of the list
WithRfiles(files, k) ==
    MkDir([n \in { Basename(files[i])[1] : i \in 1..k } |->
              ReadLines(<< n >>, rfiles, snapshot.files)] @@ snapshot.files)

\* line 184: _save_rfiles
SaveRfiles ==
    /\ pc = "save_rfiles"
    /\ LET files == CollectRfiles(rfiles, "")
       IN  \/ /\ snapshot' = WithRfiles(files, Len(files))
              /\ pc' = "save_outdated"
              /\ UNCHANGED <<result, prev>>
           \/ \E k \in 0..(Len(files) - 1) :
                 /\ snapshot' = WithRfiles(files, k)
                 /\ Finish("error")
    /\ UNCHANGED <<rfiles, index, tools, live, path, rc, invoked, had>>

\* _save_outdated followed by a removal of the actual venv
SaveOutdatedCleans ==
    /\ pc = "save_outdated"
    /\ LET data == GetOutdatedPkgs(live)
       IN  IF ~ data.ok
           THEN /\ UNCHANGED <<snapshot, live>>
                /\ Finish("error")
           ELSE /\ snapshot' = MkDir((OutdatedName :> JoinLines(data.val)) @@ snapshot.files)
                /\ live' = Absent
                /\ Finish("ok")
    /\ UNCHANGED <<rfiles, index, tools, path, rc, invoked, had>>

\* line 185: _save_outdated
SaveOutdated ==
    /\ pc = "save_outdated"
    /\ LET data == GetOutdatedPkgs(live)
       IN  IF ~ data.ok
           THEN /\ UNCHANGED snapshot
                /\ Finish("error")
           ELSE /\ snapshot' = MkDir((OutdatedName :> JoinLines(data.val)) @@ snapshot.files)
                /\ Finish("ok")
    /\ UNCHANGED <<rfiles, index, tools, live, path, rc, invoked, had>>

\* ensure() that invokes the provisioning tool again after a failed build
RemoveFailedRetries ==
    /\ pc = "remove_failed"
    /\ live' = Absent
    /\ pc' = "create"
    /\ UNCHANGED <<rfiles, index, tools, snapshot, path, result, rc, invoked, had, prev>>

\* line 86: _remove_actual_venv after a failed build
RemoveFailed ==
    /\ pc = "remove_failed"
    /\ live' = Absent
    /\ Finish("ok")
    /\ UNCHANGED <<rfiles, index, tools, snapshot, path, rc, invoked, had>>

Next ==
    \/ WriteRfile \/ DeleteRfile \/ IndexChange \/ ToolsChange
    \/ EnsureStart \/ Check \/ CopyVenv
    \/ RemoveActual \/ CreateNewVenv \/ RemoveSaved
    \/ SaveVenv \/ SaveRfiles \/ SaveOutdated \/ RemoveFailed

Spec == Init /\ [][Next]_vars

-----------------------------------------------------------------------------
(* Trigger B on its own: ensure() up to its decision, started on a saved   *)
(* venv whose stored requirement files are the current ones and whose      *)
(* recorded report is any list of package lines, in any order, against any *)
(* state of the index                                                      *)

NumRecPkgs == 2

RecPkgs == { PkgLines[i] : i \in 1..(IF NumRecPkgs < Len(PkgLines) THEN NumRecPkgs ELSE Len(PkgLines)) }

RecordedFiles == { JoinLines(r) : r \in UNION { [1..n -> RecPkgs] : n \in 0..NumRecPkgs } }

InitTriggerB ==
    /\ rfiles \in UNION { [S -> Contents] : S \in SUBSET ReqNames }
    /\ index \in SUBSET RecPkgs
    /\ tools = GoodTools
    /\ \E rec \in RecordedFiles :
          snapshot = MkDir((OutdatedName :> rec) @@ rfiles
                              @@ Restrict(BuiltEnv.files, Copied(BuiltEnv)))
    /\ live = Absent
    /\ pc = "idle"
    /\ path = "none"
    /\ result = "none"
    /\ rc = "none"
    /\ invoked = FALSE
    /\ had = FALSE
    /\ prev = "changed"

NextTriggerB == EnsureStart \/ Check

SpecTriggerB == InitTriggerB /\ [][NextTriggerB]_vars

-----------------------------------------------------------------------------
(* _save on its own: the three steps of _save, started with a built actual *)
(* venv and with the saved path either free or still holding a saved venv  *)
(* of an earlier build (rmtree with ignore_errors=True reports no failure) *)

\* saved venvs an earlier run can have left (their requirement files all
\* with the same lines)
PriorSnapshots ==
    { MkDir((OutdatedName :> JoinLines(Sorted(i))) @@ r
               @@ Restrict(BuiltEnv.files, Copied(BuiltEnv))) :
         r \in { [n \in S |-> c] : S \in SUBSET ReqNames, c \in Contents },
         i \in SUBSET Pkgs }

InitSave ==
    /\ rfiles \in UNION { [S -> Contents] : S \in SUBSET ReqNames }
    /\ index \in SUBSET Pkgs
    /\ tools \in ToolConfigs
    /\ snapshot \in {Absent} \cup PriorSnapshots
    /\ live = BuiltEnv
    /\ pc = "save_venv"
    /\ path = "REBUILD"
    /\ result = "running"
    /\ rc = "zero"
    /\ invoked = TRUE
    /\ had = FALSE
    /\ prev = "changed"

NextSave == SaveVenv \/ SaveRfiles \/ SaveOutdated

SpecSave == InitSave /\ [][NextSave]_vars

-----------------------------------------------------------------------------
(* One run of ensure() on its own, from the check on: started on any       *)
(* project, with any tools, with or without an actual venv, and with no    *)
(* saved venv, a complete one, or one a failed _save has left. A step that *)
(* can be taken is taken in the end: every external call returns.          *)

\* a step of ensure()
RunStep ==
    \/ Check \/ CopyVenv \/ RemoveActual \/ CreateNewVenv \/ RemoveSaved
    \/ SaveVenv \/ SaveRfiles \/ SaveOutdated \/ RemoveFailed

InitRun ==
    /\ rfiles \in UNION { [S -> Contents] : S \in SUBSET ReqNames }
    /\ index \in SUBSET Pkgs
    /\ tools \in ToolConfigs
    /\ snapshot \in {Absent} \cup PriorSnapshots \cup PartialTrees(BuiltEnv)
    /\ live \in {Absent, BuiltEnv}
    /\ pc = "check"
    /\ path = "none"
    /\ result = "running"
    /\ rc = "none"
    /\ invoked = FALSE
    /\ had = snapshot.exists
    /\ prev = "changed"

\* weak fairness of the steps of the run, WF_vars(RunStep), with the
\* enabling condition of RunStep written out: a step can be taken exactly
\* while the run is under way
FairRun == []<>(pc = "idle") \/ []<><<RunStep>>_vars

SpecRun == InitRun /\ [][RunStep]_vars /\ FairRun

-----------------------------------------------------------------------------
(* Vocabulary of the properties *)

\* the step on which a run returns or raises
Ends == pc # "idle" /\ pc' = "idle"

CurNames == DOMAIN rfiles

\* the requirement files stored in the saved venv
StoredReq == Restrict(snapshot.files, ReqNames)

StoredNames == DOMAIN StoredReq

SameNames == StoredNames = CurNames

SameReq == StoredReq = rfiles

RecordedPresent == OutdatedName \in DOMAIN snapshot.files

\* a line of the recorded report without its line terminator
Unterminated(l) ==
    IF \E p \in Range(PkgLines) : l = p \o "\n"
    THEN CHOOSE p \in Range(PkgLines) : l = p \o "\n"
    ELSE l

\* the recorded report, line by line
RecordedLines ==
    [i \in DOMAIN snapshot.files[OutdatedName] |-> Unterminated(snapshot.files[OutdatedName][i])]

\* the report queried now against the saved venv
Fresh == GetOutdatedPkgs(snapshot)

SameReport == RecordedPresent /\ Fresh.ok /\ Range(Fresh.val) = Range(RecordedLines)

ReportDrift == RecordedPresent /\ Fresh.ok /\ Range(Fresh.val) # Range(RecordedLines)

\* one requirement file more or one less than stored, the others as stored
OneFileApart ==
    /\ \E n \in ReqNames :
          \/ n \notin StoredNames /\ CurNames = StoredNames \cup {n}
          \/ n \notin CurNames /\ StoredNames = CurNames \cup {n}
    /\ \A n \in StoredNames \cap CurNames : StoredReq[n] = rfiles[n]

\* an actual venv and a saved venv that holds the current requirement files
\* and, as its recorded report, the report queried for the actual venv
SavedMatchesBuild ==
    /\ live.exists /\ "bin/pip" \in DOMAIN live.files
    /\ snapshot.exists
    /\ SameReq
    /\ RecordedPresent
    /\ GetOutdatedPkgs(live).ok
    /\ RecordedLines = GetOutdatedPkgs(live).val

\* the version probe prints a version that parses
ProbeWorks == VersionMatch(tools.probe) /\ "" \notin Range(VersionGroup(tools.probe))

\* the steps on which _get_outdated_pkgs is called
QueryRuns ==
    \/ pc = "save_outdated"
    \/ pc = "check" /\ snapshot.exists /\ ~ RequiresHasDiff(rfiles, snapshot.files)

-----------------------------------------------------------------------------
(* C1 Stable-cache: when the run checks a saved venv whose stored           *)
(* requirement files are, name by name and line by line, the current ones   *)
(* and whose recorded report equals as a set the report queried now, it     *)
(* goes on to copy the saved venv (REUSE); a run on REUSE never invokes the *)
(* provisioning tool.                                                       *)
StableCache ==
    /\ [][ (pc = "check" /\ snapshot.exists /\ SameReq /\ SameReport)
              => (path' = "REUSE" /\ pc' = "copy") ]_vars
    /\ [](path = "REUSE" => (~ invoked /\ rc = "none"))

StableCacheWitness ==
    /\ pc = "idle" /\ path = "REUSE" /\ result = "ok"
    /\ snapshot.exists /\ SameReq /\ SameReport
    /\ CurNames = ReqNames /\ Fresh.val # << >>
    /\ ~ invoked

FailureCleanup ==
    [][ (Ends /\ had /\ path = "REBUILD" /\ rc' = "nonzero")
           => (~ snapshot'.exists /\ ~ live'.exists) ]_vars

FailureCleanupWitness ==
    /\ pc = "idle" /\ had /\ path = "REBUILD" /\ rc = "nonzero" /\ result = "ok"
    /\ ~ snapshot.exists /\ ~ live.exists

(* C4 as claimed: after a run that ended in failure of any kind (an error   *)
(* raised, or a non-zero result of the provisioning tool) there is neither  *)
(* an actual venv nor a saved venv.                                         *)
FailedRunLeavesNothing ==
    (pc = "idle" /\ (result = "error" \/ rc = "nonzero"))
        => (~ live.exists /\ ~ snapshot.exists)

(* C5 Idempotence, as claimed: a run that starts right after another run,   *)
(* nothing outside having changed in between, takes REUSE and leaves the    *)
(* saved venv as the first run left it.                                     *)
IdempotenceAsClaimed ==
    [][ /\ (pc = "check" /\ prev # "changed") => path' = "REUSE"
        /\ (pc # "idle" /\ prev # "changed") => snapshot' = snapshot ]_vars

(* C5 Idempotence, amended: when the first run returned normally and left   *)
(* a saved venv, the second run takes REUSE and leaves the saved venv as    *)
(* the first run left it.                                                   *)
Idempotence ==
    [][ /\ (pc = "check" /\ prev = "ok" /\ snapshot.exists) => path' = "REUSE"
        /\ (pc # "idle" /\ prev = "ok" /\ had) => snapshot' = snapshot ]_vars

IdempotenceWitness ==
    /\ pc = "idle" /\ prev = "ok" /\ result = "ok" /\ had /\ path = "REUSE"
    /\ live.exists /\ RecordedPresent /\ CurNames # {}

(* C6 Added/removed-file: when the run checks a saved venv and the project  *)
(* has one requirement file more, or one less, than the saved venv stores,  *)
(* the other files being as stored, the run takes REBUILD.                  *)
AddedRemovedFile ==
    [][ (pc = "check" /\ snapshot.exists /\ OneFileApart)
           => (path' = "REBUILD" /\ pc' = "remove_actual") ]_vars

AddedRemovedFileWitness ==
    /\ pc = "remove_actual" /\ path = "REBUILD" /\ had
    /\ OneFileApart /\ SameReport
    /\ StoredNames # {} /\ StoredNames \subseteq CurNames

(* C7 Content-drift: when the run checks a saved venv that stores the same  *)
(* file names as the project has and some file differs from the stored file *)
(* of its name, be it only in the order of its lines, the run takes         *)
(* REBUILD, whichever file it is.                                           *)
ContentDrift ==
    [][ (pc = "check" /\ snapshot.exists /\ SameNames
            /\ \E n \in CurNames : rfiles[n] # StoredReq[n])
           => (path' = "REBUILD" /\ pc' = "remove_actual") ]_vars

ContentDriftWitness ==
    /\ pc = "remove_actual" /\ path = "REBUILD" /\ had
    /\ SameNames /\ CurNames = ReqNames /\ SameReport
    /\ \E n \in CurNames :
          /\ rfiles[n] # StoredReq[n]
          /\ Range(rfiles[n]) = Range(StoredReq[n])
          /\ \A m \in CurNames \ {n} : rfiles[m] = StoredReq[m]

(* C9 as claimed: whenever a run queries the outdated packages while the    *)
(* version probe or the index query fails or prints nothing parsable, the   *)
(* run ends in an error on that step.                                       *)
ProbeFailurePropagates ==
    [][ (QueryRuns /\ (~ ProbeWorks \/ tools.query = "fails"))
           => (pc' = "idle" /\ result' = "error") ]_vars

(* C10 as claimed: whenever the run checks a saved venv that has no         *)
(* recorded report, it ends in an error.                                    *)
MissingReportIsHardFailure ==
    [][ (pc = "check" /\ snapshot.exists /\ ~ RecordedPresent)
           => (pc' = "idle" /\ result' = "error") ]_vars

(* C8 Index-drift: when the run checks a saved venv whose requirement files *)
(* are the current ones, it takes REBUILD if the set of lines queried now   *)
(* against the saved venv differs from the set of lines recorded, by a line *)
(* on either side, and REUSE if the two differ at most in order.            *)
IndexDrift ==
    [][ (pc = "check" /\ snapshot.exists /\ SameReq /\ RecordedPresent /\ Fresh.ok)
           => /\ Range(Fresh.val) # Range(RecordedLines)
                    => (path' = "REBUILD" /\ pc' = "remove_actual")
              /\ Range(Fresh.val) = Range(RecordedLines)
                    => (path' = "REUSE" /\ pc' = "copy") ]_vars

IndexDriftWitness ==
    /\ pc = "remove_actual" /\ path = "REBUILD" /\ had
    /\ SameReq /\ ReportDrift
    /\ Cardinality(Range(RecordedLines) \ Range(Fresh.val)) = 1
    /\ Range(Fresh.val) \ Range(RecordedLines) = {}
    /\ Fresh.val # << >>

(* C11 as claimed: _save goes through whether or not the saved path already *)
(* holds a saved venv: it never raises leaving the earlier saved venv as it *)
(* was, and when it returns the saved venv holds the copy of the actual     *)
(* venv, the current requirement files and the new report, nothing else.    *)
SaveReplaces ==
    [][ /\ (pc = "save_venv" /\ live.exists /\ snapshot.exists)
               => (pc' = "save_rfiles" \/ snapshot' # snapshot)
        /\ (Ends /\ result' = "ok")
               => snapshot'.files = (OutdatedName :> JoinLines(GetOutdatedPkgs(live).val))
                                       @@ rfiles @@ Restrict(live.files, Copied(live)) ]_vars

\* the saved venv holds every file of a built venv that _save_venv copies
EnvCopyComplete ==
    Restrict(snapshot.files, EnvEntries) = Restrict(BuiltEnv.files, Copied(BuiltEnv))

(* C12 as claimed: between two runs, whatever way the runs so far have      *)
(* ended, a saved venv that exists is complete: it holds the whole copy of  *)
(* the built venv and a recorded report.                                    *)
SnapshotSelfConsistent ==
    (pc = "idle" /\ snapshot.exists) => (EnvCopyComplete /\ RecordedPresent)

(* C13 as claimed: on REBUILD the saved venv is removed before the          *)
(* provisioning tool is invoked: when the run is about to invoke the tool   *)
(* no saved venv exists, and a run that ends after having reached the       *)
(* invocation leaves no saved venv of an earlier build.                     *)
PurgeBeforeProvisioning ==
    /\ [](pc = "create" => ~ snapshot.exists)
    /\ [][ (Ends /\ pc = "create") => ~ snapshot'.exists ]_vars

\* the decision of _venv_not_changed were both operands of its "or" evaluated
VenvNotChangedBoth(cwd, saved) ==
    LET a == RequiresHasDiff(cwd, saved.files)
        u == PackagesUpdated(saved)
    IN  IF ~ u.ok THEN u ELSE Ret(~ (a \/ u.val))

(* C14 as claimed: whenever the run checks a saved venv, the decision it    *)
(* takes skipping the outdated-packages comparison once the requirement     *)
(* files differ (go on to copy, go on to rebuild, or raise) is the decision *)
(* it would take evaluating the comparison all the same; the rest of the    *)
(* run depends on the decision only.                                        *)
ShortCircuitUnobservable ==
    (pc = "check" /\ snapshot.exists)
        => VenvNotChanged(rfiles, snapshot) = VenvNotChangedBoth(rfiles, snapshot)

(* C15 as claimed: a run that ends, in whatever way, with an actual venv    *)
(* has produced it itself: either it copied the whole saved venv and        *)
(* returned, or the provisioning tool it invoked returned 0 and the actual  *)
(* venv is the one built.                                                   *)
FinalStateDichotomy ==
    [][ (Ends /\ live'.exists)
           => \/ /\ path = "REUSE" /\ result' = "ok"
                 /\ live'.files = Restrict(snapshot.files, Copied(snapshot))
              \/ /\ path = "REBUILD" /\ invoked' /\ rc' = "zero"
                 /\ live' = BuiltEnv ]_vars

\* the steps of _save
SaveSteps == {"save_venv", "save_rfiles", "save_outdated"}

(* C16 Save only after a successful build: the run is in _save only on      *)
(* REBUILD after the provisioning tool it invoked returned 0; nothing is    *)
(* written into the saved venv outside _save; and from the invocation the   *)
(* run goes to the removal of the old saved venv and from there straight    *)
(* to _save when the tool returned 0, never to _save otherwise.             *)
SaveOnlyAfterBuild ==
    /\ [](pc \in SaveSteps => (path = "REBUILD" /\ invoked /\ rc = "zero"))
    /\ [][ (snapshot' # snapshot /\ snapshot'.exists) => pc \in SaveSteps ]_vars
    /\ [][ (pc = "create" /\ pc' # "idle") => pc' = "remove_saved" ]_vars
    /\ [][ pc = "remove_saved"
              => pc' = (IF rc = "zero" THEN "save_venv" ELSE "remove_failed") ]_vars
    /\ [][ pc' = "save_venv" => pc = "remove_saved" ]_vars

SaveOnlyAfterBuildWitness ==
    /\ pc = "idle" /\ result = "ok" /\ path = "REBUILD" /\ invoked /\ rc = "zero"
    /\ had /\ snapshot.exists /\ RecordedPresent /\ SameReq /\ CurNames # {}

(* C17 Destroy before create: when the run is about to invoke the           *)
(* provisioning tool there is no actual venv, so what the tool leaves is    *)
(* its own build; and whatever the actual venv held before _copy_venv, the  *)
(* actual venv after it holds only files of the saved venv, with the saved  *)
(* content.                                                                 *)
DestroyBeforeCreate ==
    /\ [](pc = "create" => ~ live.exists)
    /\ [][ (pc = "create" /\ live'.exists) => live' \in PartialBuilds \cup {BuiltEnv} ]_vars
    /\ [][ (pc = "copy" /\ live'.exists)
              => \A n \in DOMAIN live'.files :
                    n \in Copied(snapshot) /\ live'.files[n] = snapshot.files[n] ]_vars

\* the saved venv is about to be copied over an actual venv that holds a
\* file the saved venv does not hold
DestroyBeforeCreateWitness ==
    /\ pc = "copy" /\ path = "REUSE"
    /\ live.exists
    /\ \E n \in DOMAIN live.files : n \notin DOMAIN snapshot.files

\* the place of a step in the text of ensure(); the run being over comes last
StepRank(p) ==
    CASE p = "check" -> 1
      [] p = "copy" -> 2
      [] p = "remove_actual" -> 2
      [] p = "create" -> 3
      [] p = "remove_saved" -> 4
      [] p = "save_venv" -> 5
      [] p = "remove_failed" -> 5
      [] p = "save_rfiles" -> 6
      [] p = "save_outdated" -> 7
      [] OTHER -> 8

(* C18 Linear flow: every run ends, and every step moves it forward in the  *)
(* text of ensure(), so no step is taken twice: the provisioning tool, the  *)
(* copy of the saved venv and each step of _save happen at most once, and a *)
(* step that fails ends the run. The path once chosen is kept, the copy     *)
(* happens on REUSE only and the invocation on REBUILD only.                *)
LinearFlow ==
    /\ <>(pc = "idle")
    /\ [][ pc # "idle" => StepRank(pc') > StepRank(pc) ]_vars
    /\ [][ (pc # "idle" /\ path # "none") => path' = path ]_vars
    /\ [](pc = "copy" => (path = "REUSE" /\ ~ invoked))
    /\ [](invoked => path = "REBUILD")

LinearFlowWitness ==
    /\ pc = "idle" /\ result = "error" /\ path = "REBUILD" /\ invoked /\ rc = "zero"
    /\ had /\ live.exists

(* C19: when a run has returned normally, the actual venv exists exactly    *)
(* when the saved venv exists: both exist after REUSE and after a REBUILD   *)
(* whose provisioning tool returned 0, neither after a REBUILD whose tool   *)
(* returned non-zero; and a saved venv that exists then was found unchanged *)
(* or saved by this run.                                                    *)
LiveIffSnapshot ==
    (pc = "idle" /\ result = "ok")
        => /\ live.exists <=> snapshot.exists
           /\ path = "REUSE" => (live.exists /\ snapshot.exists /\ had /\ ~ invoked)
           /\ (path = "REBUILD" /\ rc = "zero") => (live.exists /\ snapshot.exists)
           /\ (path = "REBUILD" /\ rc = "nonzero") => (~ live.exists /\ ~ snapshot.exists)
           /\ snapshot.exists => (path = "REUSE" \/ (invoked /\ rc = "zero" /\ SavedMatchesBuild))

LiveIffSnapshotWitness ==
    /\ pc = "idle" /\ result = "ok" /\ path = "REBUILD" /\ rc = "nonzero" /\ invoked
    /\ ~ had /\ ~ live.exists /\ ~ snapshot.exists

\* the files of a built venv, compiled bytecode aside
BuiltContent == Restrict(BuiltEnv.files, { n \in EnvEntries : ~ FnMatch(n, "*.pyc") })

(* C20 Round-trip, as claimed: the actual venv a run leaves when it has     *)
(* copied the saved venv and returned holds exactly the files of the venv   *)
(* that was built, compiled bytecode aside, and nothing of what _save added *)
(* to the saved venv.                                                       *)
RoundTripAsClaimed ==
    [][ (Ends /\ path = "REUSE" /\ result' = "ok") => live'.files = BuiltContent ]_vars

(* C20 Round-trip, amended: that actual venv holds the files of the venv    *)
(* that was built, compiled bytecode aside, and besides them the stored     *)
(* requirement files and the recorded report of the saved venv, as stored,  *)
(* and nothing else.                                                        *)
RoundTrip ==
    [][ (Ends /\ path = "REUSE" /\ result' = "ok")
           => /\ Restrict(live'.files, EnvEntries) = BuiltContent
              /\ DOMAIN live'.files \ EnvEntries = StoredNames \cup {OutdatedName}
              /\ \A n \in StoredNames \cup {OutdatedName} : live'.files[n] = snapshot.files[n] ]_vars

RoundTripWitness ==
    /\ pc = "idle" /\ path = "REUSE" /\ result = "ok"
    /\ Restrict(live.files, EnvEntries) = BuiltContent
    /\ OutdatedName \in DOMAIN live.files
    /\ StoredNames = ReqNames /\ StoredNames \subseteq DOMAIN live.files

====
